---- MODULE Spec2Model ----
(***************************************************************************)
(* Model of the healing decision engine of autonomous-test-repair-system:  *)
(* src/agents/healer.py (run_test, gather_evidence,                        *)
(* classify_failure_heuristic, analyze_and_plan, apply_fix,                *)
(* emit_artifacts, attempt_healing), src/utils/validation.py               *)
(* (validate_file_path) and src/models/healing_model.py.                   *)
(*                                                                         *)
(* Text is a sequence of one-character strings; a log is a sequence of     *)
(* tokens, and "marker in logs" is token membership.  Confidences are in   *)
(* tenths (1.0 is 10, 0.8 is 8).  Directory names are abbreviated to one   *)
(* or two letters: /w is the working directory, t/g is tests/generated,    *)
(* t/gx a sibling directory whose name begins with that of t/g.            *)
(***************************************************************************)
EXTENDS Integers, Sequences, FiniteSets, TLC

\* ------------------------------------------------------------------ bounds

\* largest max_retries a session is started with
MaxRetries == 2

\* last clock second of the model
MaxClock == 2

\* ------------------------------------------------------------ text helpers

NL == "\n"

IsSpace(c) == c \in {" ", "\t", NL}

Min(S) == CHOOSE x \in S : \A y \in S : x <= y

RECURSIVE lstrip(_)
\* str.lstrip(): drop leading whitespace
lstrip(s) == IF s = <<>> \/ ~IsSpace(Head(s)) THEN s ELSE lstrip(Tail(s))

RECURSIVE rstrip(_)
\* str.rstrip(): drop trailing whitespace
rstrip(s) ==
    IF s = <<>> \/ ~IsSpace(s[Len(s)]) THEN s ELSE rstrip(SubSeq(s, 1, Len(s) - 1))

\* str.strip()
strip(s) == rstrip(lstrip(s))

RECURSIVE SplitFrom(_, _)
SplitFrom(s, cur) ==
    IF s = <<>> THEN (IF cur = <<>> THEN <<>> ELSE <<cur>>)
    ELSE IF Head(s) = NL THEN <<cur>> \o SplitFrom(Tail(s), <<>>)
    ELSE SplitFrom(Tail(s), Append(cur, Head(s)))

\* str.splitlines(): lines without their terminators; a final terminator
\* opens no further line
splitlines(s) == SplitFrom(s, <<>>)

RECURSIVE join(_, _)
\* sep.join(lines)
join(sep, lines) ==
    IF lines = <<>> THEN <<>>
    ELSE IF Len(lines) = 1 THEN lines[1]
    ELSE lines[1] \o sep \o join(sep, Tail(lines))

\* Python's "t in s" on strings
Contains(t, s) ==
    \E i \in 1..(Len(s) - Len(t) + 1) : SubSeq(s, i, i + Len(t) - 1) = t

RECURSIVE Replace(_, _, _)
\* str.replace(t, r) for non-empty t: every non-overlapping occurrence,
\* scanning left to right
Replace(s, t, r) ==
    IF Len(s) < Len(t) THEN s
    ELSE IF SubSeq(s, 1, Len(t)) = t
         THEN r \o Replace(SubSeq(s, Len(t) + 1, Len(s)), t, r)
         ELSE <<Head(s)>> \o Replace(Tail(s), t, r)

RECURSIVE SignificantLines(_)
SignificantLines(lines) ==
    IF lines = <<>> THEN <<>>
    ELSE IF strip(Head(lines)) = <<>> THEN SignificantLines(Tail(lines))
    ELSE <<strip(Head(lines))>> \o SignificantLines(Tail(lines))

\* normalize_lines: the stripped non-blank lines of a text
normalize_lines(text) == SignificantLines(splitlines(text))

\* ---------------------------------------------------------------- apply_fix

\* a replacement that keeps no indentation of the file
base_indent_none(line) == <<>>

\* the leading-whitespace prefix of a line
base_indent_of(line) == SubSeq(line, 1, Len(line) - Len(lstrip(line)))

\* a search that compares the first line of the window only
MatchingWindows_first_line(code_lines, target_lines) ==
    { i \in 1..(Len(code_lines) - Len(target_lines) + 1) :
        target_lines # <<>> => strip(code_lines[i]) = target_lines[1] }

\* window positions (1-based) of the sliding search, range(len(code_lines)
\* - len(target_lines) + 1), at which the stripped window equals target_lines
MatchingWindows(code_lines, target_lines) ==
    { i \in 1..(Len(code_lines) - Len(target_lines) + 1) :
        \A k \in 1..Len(target_lines) :
            strip(code_lines[i + k - 1]) = target_lines[k] }

Returned(code) == [raised |-> FALSE, code |-> code]
Raised == [raised |-> TRUE, code |-> <<>>]

\* apply_fix(file_path, current_code, decision) on the decision's
\* original_code (target) and fixed_code (replacement)
apply_fix(current_code, target, replacement) ==
    IF target = <<>> \/ replacement = <<>> THEN Returned(current_code)
    ELSE IF Contains(target, current_code)
    THEN Returned(Replace(current_code, target, replacement))
    ELSE LET target_lines == normalize_lines(target)
             code_lines == splitlines(current_code)
             found == MatchingWindows(code_lines, target_lines)
         IN IF found = {} THEN Returned(current_code)
            ELSE LET i == Min(found)
                 IN IF i > Len(code_lines) THEN Raised   \* code_lines[i]: IndexError
                    ELSE LET base_indent == base_indent_of(code_lines[i])
                             replacement_lines == splitlines(replacement)
                             indented_replacement ==
                                 [j \in 1..Len(replacement_lines) |->
                                     base_indent \o lstrip(replacement_lines[j])]
                             new_code_lines ==
                                 SubSeq(code_lines, 1, i - 1)
                                 \o indented_replacement
                                 \o SubSeq(code_lines, i + Len(target_lines),
                                           Len(code_lines))
                         IN Returned(join(<<NL>>, new_code_lines))

\* ------------------------------------------------------ validate_file_path

\* raised in place of a return value
ValidationError == <<"!", "V">>

RECURSIVE SplitSlash(_, _)
\* the "/"-separated segments of a path
SplitSlash(p, cur) ==
    IF p = <<>> THEN <<cur>>
    ELSE IF Head(p) = "/" THEN <<cur>> \o SplitSlash(Tail(p), <<>>)
    ELSE SplitSlash(Tail(p), Append(cur, Head(p)))

RECURSIVE Collapse(_, _)
\* os.path.normpath on the segments of an absolute path: empty and "."
\* segments vanish, ".." removes the segment before it (none at the root)
Collapse(segs, done) ==
    IF segs = <<>> THEN done
    ELSE IF Head(segs) = <<>> \/ Head(segs) = <<".">> THEN Collapse(Tail(segs), done)
    ELSE IF Head(segs) = <<".", ".">>
         THEN Collapse(Tail(segs),
                       IF done = <<>> THEN done ELSE SubSeq(done, 1, Len(done) - 1))
    ELSE Collapse(Tail(segs), Append(done, Head(segs)))

RECURSIVE JoinAbs(_)
JoinAbs(segs) ==
    IF segs = <<>> THEN <<>> ELSE <<"/">> \o Head(segs) \o JoinAbs(Tail(segs))

\* os.getcwd(): /w
Cwd == <<"/", "w">>

\* os.path.abspath(path)
abspath(path) ==
    LET full == IF path # <<>> /\ Head(path) = "/" THEN path ELSE Cwd \o <<"/">> \o path
        segs == Collapse(SplitSlash(full, <<>>), <<>>)
    IN IF segs = <<>> THEN <<"/">> ELSE JoinAbs(segs)

\* str.startswith
startswith(s, prefix) ==
    Len(prefix) <= Len(s) /\ SubSeq(s, 1, Len(prefix)) = prefix

\* the default allowed_dirs, ["tests/generated"]
DefaultAllowedDirs == { <<"t", "/", "g">> }

\* validate_file_path(file_path) with the default allowed_dirs: the
\* absolute path, or ValidationError.  os.path.commonpath of two absolute
\* POSIX paths never raises, so the prefix test alone decides.
validate_file_path(file_path) ==
    IF file_path = <<>> THEN ValidationError
    ELSE LET abs_path == abspath(file_path)
         IN IF \E allowed_dir \in DefaultAllowedDirs :
                   startswith(abs_path, abspath(allowed_dir))
            THEN abs_path
            ELSE ValidationError

\* ----------------------------------------------------------------- run_test

\* what subprocess.run does: the process completes with an exit status and
\* output, or TimeoutExpired or FileNotFoundError is raised
ProcOutcomes ==
    { [kind |-> "completed", returncode |-> 0, stdout |-> <<"1 passed">>, stderr |-> <<>>],
      [kind |-> "completed", returncode |-> 1, stdout |-> <<"1 failed">>,
       stderr |-> <<"expect(", "received">>],
      [kind |-> "completed", returncode |-> 1,
       stdout |-> <<"locator resolved to 0 elements">>, stderr |-> <<>>],
      [kind |-> "TimeoutExpired", returncode |-> 0, stdout |-> <<>>, stderr |-> <<>>],
      [kind |-> "FileNotFoundError", returncode |-> 0, stdout |-> <<>>, stderr |-> <<>>] }

\* a run_test whose stand-in results carry exit status 0
run_test_faults_pass(proc) ==
    [raised |-> FALSE, returncode |-> IF proc.kind = "completed" THEN proc.returncode ELSE 0,
     stdout |-> proc.stdout,
     stderr |-> IF proc.kind = "completed" THEN proc.stderr ELSE <<"Playwright not found">>]

\* the result object run_test hands back for one outcome of the process
run_test(proc) ==
    CASE proc.kind = "TimeoutExpired" ->
            [raised |-> FALSE, returncode |-> 1, stdout |-> <<>>,
             stderr |-> <<"Test execution timed out", "after 60 seconds">>]
      [] proc.kind = "FileNotFoundError" ->
            [raised |-> FALSE, returncode |-> 1, stdout |-> <<>>,
             stderr |-> <<"Playwright not found">>]
      [] OTHER ->
            [raised |-> FALSE, returncode |-> proc.returncode,
             stdout |-> proc.stdout, stderr |-> proc.stderr]

\* no run has happened yet
NoResult == [raised |-> FALSE, returncode |-> -1, stdout |-> <<>>, stderr |-> <<>>]

\* gather_evidence: the error log is stderr, or stdout when stderr is empty
\* (the screenshot path, which nothing in the engine reads, is left out)
gather_evidence(result) ==
    [error_log |-> IF result.stderr # <<>> THEN result.stderr ELSE result.stdout]

\* ------------------------------------------------ classify_failure_heuristic

\* marker in logs
Has(logs, marker) == \E i \in 1..Len(logs) : logs[i] = marker

\* verification_log = None
NoneLog == <<"<None>">>

\* a classifier in which the last matching rule wins
classify_last_rule_first(logs) ==
    IF logs = NoneLog \/ logs = <<>> THEN <<"UNKNOWN", 0>>
    ELSE IF Has(logs, "ReferenceError") \/ Has(logs, "TypeError")
    THEN <<"JAVASCRIPT_ERROR", 7>>
    ELSE IF Has(logs, "net::ERR_ABORTED") \/ Has(logs, "404") \/ Has(logs, "500")
    THEN <<"POTENTIAL_APP_DEFECT", 8>>
    ELSE IF Has(logs, "locator resolved to 0 elements")
    THEN (IF Has(logs, "Did you mean") THEN <<"LOCATOR_DRIFT", 8>>
          ELSE <<"LOCATOR_NOT_FOUND", 7>>)
    ELSE IF Has(logs, "Error: strict mode violation")
    THEN <<"LOCATOR_DRIFT", 9>>
    ELSE IF Has(logs, "expect(") /\ Has(logs, "received")
    THEN <<"ASSERTION_FAILED", 10>>
    ELSE IF Has(logs, "TargetClosedError") \/ Has(logs, "browser has been closed")
    THEN <<"ENVIRONMENT_ISSUE", 10>>
    ELSE IF Has(logs, "TimeoutError") \/ Has(logs, "waiting for selector")
            \/ Has(logs, "Test execution timed out")
    THEN <<"TIMEOUT", 10>>
    ELSE <<"UNKNOWN", 0>>

\* classify_failure_heuristic(logs): (FailureType, confidence in tenths)
classify_failure_heuristic(logs) ==
    IF logs = NoneLog \/ logs = <<>> THEN <<"UNKNOWN", 0>>
    ELSE IF Has(logs, "TimeoutError") \/ Has(logs, "waiting for selector")
            \/ Has(logs, "Test execution timed out")
    THEN <<"TIMEOUT", 10>>
    ELSE IF Has(logs, "TargetClosedError") \/ Has(logs, "browser has been closed")
    THEN <<"ENVIRONMENT_ISSUE", 10>>
    ELSE IF Has(logs, "expect(") /\ Has(logs, "received")
    THEN <<"ASSERTION_FAILED", 10>>
    ELSE IF Has(logs, "Error: strict mode violation")
    THEN <<"LOCATOR_DRIFT", 9>>
    ELSE IF Has(logs, "locator resolved to 0 elements")
    THEN (IF Has(logs, "Did you mean") THEN <<"LOCATOR_DRIFT", 8>>
          ELSE <<"LOCATOR_NOT_FOUND", 7>>)
    ELSE IF Has(logs, "net::ERR_ABORTED") \/ Has(logs, "404") \/ Has(logs, "500")
    THEN <<"POTENTIAL_APP_DEFECT", 8>>
    ELSE IF Has(logs, "ReferenceError") \/ Has(logs, "TypeError")
    THEN <<"JAVASCRIPT_ERROR", 7>>
    ELSE <<"UNKNOWN", 0>>

\* ---------------------------------------------------------- analyze_and_plan

\* a code field of the reasoner's JSON: a string, or a list of lines
Str(t) == [is_list |-> FALSE, text |-> t, lines |-> <<>>]
Lines(ls) == [is_list |-> TRUE, text |-> <<>>, lines |-> ls]

\* lines 214-217: a list-valued code field becomes its lines joined by "\n"
CodeText(v) == IF v.is_list THEN join(<<NL>>, v.lines) ELSE v.text

\* data.get("failure_type") when the key is missing
Absent == "<absent>"

\* a fallback decision that is created as verified
FallbackDecision_verified(evidence) ==
    [failure_type |-> "UNKNOWN", confidence_score |-> 0,
     original_code |-> <<>>, fixed_code |-> <<>>, description |-> "No action",
     error_log |-> evidence.error_log,
     verification_passed |-> TRUE, verification_log |-> NoneLog]

\* the decision of the except branch, lines 230-243
FallbackDecision(evidence) ==
    [failure_type |-> "UNKNOWN", confidence_score |-> 0,
     original_code |-> <<>>, fixed_code |-> <<>>, description |-> "No action",
     error_log |-> evidence.error_log,
     verification_passed |-> FALSE, verification_log |-> NoneLog]

\* line 208: data.get("failure_type", FailureType.UNKNOWN)
ReportedType(llm) == IF llm.failure_type = Absent THEN "UNKNOWN" ELSE llm.failure_type

\* an override that already applies at confidence 0.8
FinalType_at_least(llm, h_type, h_conf) ==
    IF h_conf >= 8 /\ ReportedType(llm) = "UNKNOWN" THEN h_type ELSE ReportedType(llm)

\* lines 207-210: the heuristic's type replaces an UNKNOWN answer when the
\* heuristic confidence is above 0.8
FinalType(llm, h_type, h_conf) ==
    IF h_conf > 8 /\ ReportedType(llm) = "UNKNOWN" THEN h_type ELSE ReportedType(llm)

\* analyze_and_plan once the prompt is loaded: llm is what the reasoning
\* call and json.loads produced.  A raising call, a non-object JSON value,
\* and an action_taken that HealingAction(**action_data) rejects all end in
\* the except branch.
analyze_and_plan(evidence, llm) ==
    LET h == classify_failure_heuristic(evidence.error_log)
    IN IF llm.kind # "data" \/ llm.action # "ok" THEN FallbackDecision(evidence)
       ELSE [failure_type |-> FinalType(llm, h[1], h[2]),
             confidence_score |-> llm.confidence_score,
             original_code |-> CodeText(llm.original_code),
             fixed_code |-> CodeText(llm.fixed_code),
             description |-> "fix",
             error_log |-> evidence.error_log,
             verification_passed |-> FALSE, verification_log |-> NoneLog]

\* lines 205-228: the response is a JSON object from which the try block
\* builds a HealingDecision
Parsed(r) == r.kind = "data" /\ r.action = "ok"

NoDecision ==
    [failure_type |-> "<none>", confidence_score |-> 0,
     original_code |-> <<>>, fixed_code |-> <<>>, description |-> "<none>",
     error_log |-> <<>>, verification_passed |-> FALSE, verification_log |-> NoneLog]

Answer(ft, orig, fixed) ==
    [kind |-> "data", failure_type |-> ft, confidence_score |-> 9, action |-> "ok",
     original_code |-> orig, fixed_code |-> fixed]

\* the reasoner's answers a session is run against
Responses ==
    { [kind |-> "raise", failure_type |-> Absent, confidence_score |-> 0,
       action |-> "absent", original_code |-> Str(<<>>), fixed_code |-> Str(<<>>)],
      [kind |-> "data", failure_type |-> "TIMEOUT", confidence_score |-> 9,
       action |-> "missing_field", original_code |-> Str(<<"b">>), fixed_code |-> Str(<<>>)],
      Answer("UNKNOWN", Str(<<"b">>), Str(<<"c">>)),
      Answer("LOCATOR_DRIFT", Lines(<<<<"a">>, <<"b">>>>), Lines(<<<<"a">>, <<"d">>>>)),
      Answer(Absent, Str(<<"z">>), Str(<<"y">>)),
      Answer("FLAKY", Str(<<" ", " ", " ">>), Str(<<"e">>)) }

\* ------------------------------------------------------------------- state

\* the healing sessions; session 1 is the one run alone
Sessions == {1, 2}

\* the test_file arguments a session is started with: "", t/g/f, t/g/m
\* (no such file), t/g/../../e/f, /e/f and t/gx/f
InputPaths ==
    { <<>>,
      <<"t", "/", "g", "/", "f">>,
      <<"t", "/", "g", "/", "m">>,
      <<"t", "/", "g", "/", ".", ".", "/", ".", ".", "/", "e", "/", "f">>,
      <<"/", "e", "/", "f">>,
      <<"t", "/", "g", "x", "/", "f">> }

\* the files on disk
ExistingPaths ==
    { <<"/", "w", "/", "t", "/", "g", "/", "f">>,
      <<"/", "w", "/", "t", "/", "g", "x", "/", "f">>,
      <<"/", "e", "/", "f">> }

\* the content the target file starts with: "a\n  b\n", and the empty file
InitialContents == { <<"a", NL, " ", " ", "b", NL>>, <<>> }

VARIABLES
    pc,              \* where each session is in attempt_healing
    test_file,       \* argument
    max_retries,     \* argument
    validated_path,  \* local
    result,          \* local: the latest run result
    current_code,    \* local
    attempt,         \* local: the loop variable
    decision,        \* local: the attempt's HealingDecision
    new_code,        \* local
    verify_result,   \* local
    timeline,        \* local: the ExecutionTimeline's step names
    retval,          \* what attempt_healing returned
    exc,             \* what attempt_healing raised
    fs,              \* the files on disk: path -> content
    decision_files,  \* ARTIFACTS_DIR/healing_decision_<timestamp>.json
    timeline_files,  \* ARTIFACTS_DIR/execution_timeline_<timestamp>.json
    clock,           \* datetime.now(), in seconds
    runs,            \* history: the run_test calls, in order
    plan_inputs,     \* history: the arguments of the analyze_and_plan calls
    writes,          \* history: the contents written to the target file
    reads,           \* history: the number of reads of the target file
    emits,           \* history: the emit_artifacts calls, in order
    logs,            \* classify_failure_heuristic: argument
    heuristic,       \* classify_failure_heuristic: the pair returned
    response,        \* analyze_and_plan: what the reasoning call produced
    llm_response,    \* extract_json_block: argument
    json_str         \* extract_json_block: the text returned

locals == <<test_file, max_retries, validated_path, result, current_code, attempt,
            decision, new_code, verify_result>>
disk == <<fs, decision_files, timeline_files, clock>>
history == <<runs, plan_inputs, writes, reads, emits>>
calls == <<logs, heuristic, response, llm_response, json_str>>
vars == <<pc, locals, timeline, retval, exc, disk, history, calls>>

NoReturn == "<none>"

\* the four strings attempt_healing returns (lines 347, 358, 431, 444)
FileNotFound == "Error: File not found"
NoHealingNeeded == "Test passed (No healing needed)."
Success == "SUCCESS: Test healed!"
HealingFailed == "Healing failed to make test pass."
NoPath == <<>>

\* no function is being evaluated on its own
NoHeuristic == <<"<none>", 0>>
NoResponse == [kind |-> "<none>"]
NoText == <<"<none>">>
NoCall ==
    /\ logs = <<>>
    /\ heuristic = NoHeuristic
    /\ response = NoResponse
    /\ llm_response = NoText
    /\ json_str = NoText

\* the locals, the disk and the history before anything has run
Idle(p, m, c, code, d) ==
    /\ test_file = [s \in Sessions |-> p]
    /\ max_retries = [s \in Sessions |-> m]
    /\ validated_path = [s \in Sessions |-> NoPath]
    /\ result = [s \in Sessions |-> NoResult]
    /\ current_code = [s \in Sessions |-> code]
    /\ attempt = [s \in Sessions |-> 0]
    /\ decision = [s \in Sessions |-> d]
    /\ new_code = [s \in Sessions |-> <<>>]
    /\ verify_result = [s \in Sessions |-> NoResult]
    /\ timeline = [s \in Sessions |-> <<>>]
    /\ retval = [s \in Sessions |-> NoReturn]
    /\ exc = [s \in Sessions |-> NoReturn]
    /\ fs = [q \in ExistingPaths |-> c]
    /\ decision_files = <<>>
    /\ timeline_files = <<>>
    /\ clock = 0
    /\ runs = [s \in Sessions |-> <<>>]
    /\ plan_inputs = [s \in Sessions |-> <<>>]
    /\ writes = [s \in Sessions |-> <<>>]
    /\ reads = [s \in Sessions |-> 0]
    /\ emits = [s \in Sessions |-> <<>>]

InitSession(p, m, c, started) ==
    /\ pc = [s \in Sessions |-> IF s \in started THEN "start" ELSE "off"]
    /\ Idle(p, m, c, <<>>, NoDecision)
    /\ NoCall

\* one session, started on any path with any retry budget
Init ==
    \E p \in InputPaths, m \in 0..MaxRetries, c \in InitialContents :
        InitSession(p, m, c, {1})

\* ------------------------------------------------------------ attempt_healing

\* timeline.add_step
add_step(s, steps) == timeline' = [timeline EXCEPT ![s] = @ \o steps]

Return(s, value) ==
    /\ retval' = [retval EXCEPT ![s] = value]
    /\ pc' = [pc EXCEPT ![s] = "returned"]
    /\ exc' = exc

Raise(s, error) ==
    /\ exc' = [exc EXCEPT ![s] = error]
    /\ pc' = [pc EXCEPT ![s] = "raised"]
    /\ retval' = retval

Goto(s, label) ==
    /\ pc' = [pc EXCEPT ![s] = label]
    /\ UNCHANGED <<retval, exc>>

\* an existence test that never fails
exists_always(path) == TRUE

\* Path(validated_path_str).exists()
exists(path) == path \in DOMAIN fs

\* lines 341-349: start the timeline, validate the path, stop when there is
\* no such file
Start(s) ==
    /\ pc[s] = "start"
    /\ LET v == validate_file_path(test_file[s])
       IN IF v = ValidationError
          THEN /\ add_step(s, <<"Start">>)
               /\ Raise(s, "ValidationError")
               /\ UNCHANGED validated_path
          ELSE /\ validated_path' = [validated_path EXCEPT ![s] = v]
               /\ IF ~exists(v)
                  THEN /\ add_step(s, <<"Start", "Error">>)
                       /\ Return(s, FileNotFound)
                  ELSE /\ add_step(s, <<"Start">>)
                       /\ Goto(s, "initial_run")
    /\ UNCHANGED <<calls, test_file, max_retries, result, current_code, attempt, decision,
                   new_code, verify_result, disk, history>>

\* the exit status test inverted
Passed_inverted(r) == r.returncode # 0

\* lines 355, 412: returncode == 0
Passed(r) == r.returncode = 0

\* lines 353-363: the initial run
InitialRun(s) ==
    /\ pc[s] = "initial_run"
    /\ \E proc \in ProcOutcomes :
        LET r == run_test(proc)
        IN /\ runs' = [runs EXCEPT ![s] = Append(@, [kind |-> proc.kind, result |-> r])]
           /\ IF r.raised
              THEN /\ Raise(s, proc.kind)
                   /\ UNCHANGED <<result, timeline>>
              ELSE /\ result' = [result EXCEPT ![s] = r]
                   /\ IF Passed(r)
                      THEN /\ add_step(s, <<"InitialRun">>)
                           /\ Return(s, NoHealingNeeded)
                      ELSE /\ add_step(s, <<"FailureDetected">>)
                           /\ Goto(s, "read_code")
    /\ UNCHANGED <<calls, test_file, max_retries, validated_path, current_code, attempt,
                   decision, new_code, verify_result, disk, plan_inputs, writes,
                   reads, emits>>

\* lines 365-367: read the file
ReadCode(s) ==
    /\ pc[s] = "read_code"
    /\ current_code' = [current_code EXCEPT ![s] = fs[validated_path[s]]]
    /\ reads' = [reads EXCEPT ![s] = @ + 1]
    /\ Goto(s, "loop")
    /\ UNCHANGED <<calls, test_file, max_retries, validated_path, result, attempt, decision,
                   new_code, verify_result, timeline, disk, runs, plan_inputs,
                   writes, emits>>

\* a loop that runs one time too many
InRange_one_more(a, m) == a <= m

\* line 370: for attempt in range(max_retries)
InRange(a, m) == a < m

\* lines 370-378 and 438-444: the loop head starts the next attempt and
\* collects the evidence, or ends the session when the budget is used up
LoopHead(s) ==
    /\ pc[s] = "loop"
    /\ IF InRange(attempt[s], max_retries[s])
       THEN /\ add_step(s, <<"HealingAttempt", "EvidenceCollected">>)
            /\ Goto(s, "plan")
       ELSE /\ add_step(s, <<"HealingFailed">>)
            /\ Return(s, HealingFailed)
    /\ UNCHANGED <<calls, locals, disk, history>>

\* a test that takes every patch for a change
IsNoOp_never(code, updated) == FALSE

\* line 393: the patch changed nothing
IsNoOp(code, updated) == updated = code

\* lines 380-404: analyze_and_plan (load_prompt raises when the prompt file
\* is missing, before the try block), then apply_fix and the no-op test
Plan(s) ==
    /\ pc[s] = "plan"
    /\ \E prompt \in {"ok", "missing"}, llm \in Responses :
        LET evidence == gather_evidence(result[s])
            d == analyze_and_plan(evidence, llm)
            fix == apply_fix(current_code[s], d.original_code, d.fixed_code)
        IN /\ plan_inputs' = [plan_inputs EXCEPT ![s] =
                  Append(@, [code |-> current_code[s], error_log |-> evidence.error_log,
                             reasoner |-> IF prompt = "missing" THEN "not called"
                                          ELSE IF Parsed(llm) THEN "parsed"
                                          ELSE "failed",
                             writes_before |-> Len(writes[s]),
                             runs_before |-> Len(runs[s])])]
           /\ IF prompt = "missing"
              THEN /\ Raise(s, "FileNotFoundError: Prompt file not found")
                   /\ UNCHANGED <<decision, new_code, timeline>>
              ELSE IF fix.raised
              THEN /\ decision' = [decision EXCEPT ![s] = d]
                   /\ add_step(s, <<"AnalysisComplete">>)
                   /\ Raise(s, "IndexError")
                   /\ UNCHANGED new_code
              ELSE /\ new_code' = [new_code EXCEPT ![s] = fix.code]
                   /\ IF IsNoOp(current_code[s], fix.code)
                      THEN /\ decision' = [decision EXCEPT ![s] =
                                  [d EXCEPT !.verification_log =
                                      <<"Could not apply fix (code mismatch)">>]]
                           /\ add_step(s, <<"AnalysisComplete", "ActionFailed">>)
                           /\ Goto(s, "emit_noop")
                      ELSE /\ decision' = [decision EXCEPT ![s] = d]
                           /\ add_step(s, <<"AnalysisComplete", "SelectorUpdated">>)
                           /\ Goto(s, "write")
    /\ UNCHANGED <<calls, test_file, max_retries, validated_path, result, current_code,
                   attempt, verify_result, disk, runs, writes, reads, emits>>

\* a write that is left out when the file is no longer what the session read
WriteFile_unless_changed(s) ==
    /\ pc[s] = "write"
    /\ fs' = IF fs[validated_path[s]] = current_code[s]
             THEN [fs EXCEPT ![validated_path[s]] = new_code[s]]
             ELSE fs
    /\ writes' = [writes EXCEPT ![s] = Append(@, new_code[s])]
    /\ Goto(s, "verify")
    /\ UNCHANGED <<calls, locals, timeline, decision_files, timeline_files, clock,
                   runs, plan_inputs, reads, emits>>

\* lines 406-408: write the new code
WriteFile(s) ==
    /\ pc[s] = "write"
    /\ fs' = [fs EXCEPT ![validated_path[s]] = new_code[s]]
    /\ writes' = [writes EXCEPT ![s] = Append(@, new_code[s])]
    /\ Goto(s, "verify")
    /\ UNCHANGED <<calls, locals, timeline, decision_files, timeline_files, clock,
                   runs, plan_inputs, reads, emits>>

\* lines 410-422: the verification run, recorded in the decision
Verify(s) ==
    /\ pc[s] = "verify"
    /\ \E proc \in ProcOutcomes :
        LET r == run_test(proc)
        IN /\ runs' = [runs EXCEPT ![s] = Append(@, [kind |-> proc.kind, result |-> r])]
           /\ IF r.raised
              THEN /\ Raise(s, proc.kind)
                   /\ UNCHANGED <<verify_result, decision, timeline>>
              ELSE /\ verify_result' = [verify_result EXCEPT ![s] = r]
                   /\ decision' = [decision EXCEPT ![s] =
                          [@ EXCEPT !.verification_passed = Passed(r),
                                    !.verification_log =
                                        IF Passed(r) THEN r.stdout ELSE r.stderr]]
                   /\ add_step(s, <<"Verification">>)
                   /\ Goto(s, "emit_verified")
    /\ UNCHANGED <<calls, test_file, max_retries, validated_path, result, current_code,
                   attempt, new_code, disk, plan_inputs, writes, reads, emits>>

\* what the two open(..., "w") calls of emit_artifacts can do
IoOutcomes == {"ok", "decision_write_fails", "timeline_write_fails"}

\* an emission that writes the decision document only
emit_artifacts_decision_only(s, t, io) ==
    /\ clock' = t
    /\ emits' = [emits EXCEPT ![s] = Append(@, [timestamp |-> t, io |-> io])]
    /\ decision_files' =
          IF io = "decision_write_fails" THEN decision_files
          ELSE (t :> decision[s]) @@ decision_files
    /\ timeline_files' = timeline_files

\* lines 315-336: emit_artifacts(decision, timeline) at clock second t
emit_artifacts(s, t, io) ==
    /\ clock' = t
    /\ emits' = [emits EXCEPT ![s] = Append(@, [timestamp |-> t, io |-> io])]
    /\ decision_files' =
          IF io = "decision_write_fails" THEN decision_files
          ELSE (t :> decision[s]) @@ decision_files
    /\ timeline_files' =
          IF io = "ok" THEN (t :> timeline[s]) @@ timeline_files ELSE timeline_files

\* the seconds the clock can show at the next call
Seconds == { t \in {clock, clock + 1} : t <= MaxClock }

\* lines 399-400: the artifacts of a no-op attempt, then continue
EmitNoOp(s) ==
    /\ pc[s] = "emit_noop"
    /\ \E t \in Seconds, io \in IoOutcomes :
        /\ emit_artifacts(s, t, io)
        /\ IF io # "ok"
           THEN /\ Raise(s, "OSError")
                /\ UNCHANGED attempt
           ELSE /\ attempt' = [attempt EXCEPT ![s] = @ + 1]
                /\ Goto(s, "loop")
    /\ UNCHANGED <<calls, test_file, max_retries, validated_path, result, current_code,
                   decision, new_code, verify_result, timeline, fs,
                   runs, plan_inputs, writes, reads>>

\* the next attempt keeps working on the code read at the start
NextCode_stale(code, updated) == code

\* line 434: current_code = new_code
NextCode(code, updated) == updated

\* line 435: result = verify_result
NextResult(previous, verified) == verified

\* lines 424-436: the artifacts of a verified attempt, then the success
\* return or the preparation of the next attempt
EmitVerified(s) ==
    /\ pc[s] = "emit_verified"
    /\ \E t \in Seconds, io \in IoOutcomes :
        /\ emit_artifacts(s, t, io)
        /\ IF io # "ok"
           THEN /\ Raise(s, "OSError")
                /\ UNCHANGED <<attempt, current_code, result, timeline>>
           ELSE IF decision[s].verification_passed
           THEN /\ Return(s, Success)
                /\ UNCHANGED <<attempt, current_code, result, timeline>>
           ELSE /\ current_code' = [current_code EXCEPT ![s] =
                       NextCode(current_code[s], new_code[s])]
                /\ result' = [result EXCEPT ![s] =
                       NextResult(result[s], verify_result[s])]
                /\ add_step(s, <<"Retry">>)
                /\ attempt' = [attempt EXCEPT ![s] = @ + 1]
                /\ Goto(s, "loop")
    /\ UNCHANGED <<calls, test_file, max_retries, validated_path, decision, new_code,
                   verify_result, fs, runs, plan_inputs, writes, reads>>

\* the next step of session s
Step(s) ==
    \/ Start(s)
    \/ InitialRun(s)
    \/ ReadCode(s)
    \/ LoopHead(s)
    \/ Plan(s)
    \/ WriteFile(s)
    \/ Verify(s)
    \/ EmitNoOp(s)
    \/ EmitVerified(s)

Next == \E s \in Sessions : Step(s)

Spec == Init /\ [][Next]_vars

\* ------------------------------------------------------------------ claims

Terminated(s) == pc[s] \in {"returned", "raised", "off"}

SomeVerificationPassed(s) ==
    \E i \in 2..Len(runs[s]) : runs[s][i].result.returncode = 0

Last(seq) == seq[Len(seq)]

\* the attempts a session can still start
AttemptsLeft(s) == max_retries[s] - attempt[s]

\* an upper bound on the steps a session still takes: an attempt is at most
\* five steps (loop head, plan, write, verify, emit)
Rank(s) ==
    CASE pc[s] = "start" -> 5 * max_retries[s] + 4
      [] pc[s] = "initial_run" -> 5 * max_retries[s] + 3
      [] pc[s] = "read_code" -> 5 * max_retries[s] + 2
      [] pc[s] = "loop" -> 5 * AttemptsLeft(s) + 1
      [] pc[s] = "plan" -> 5 * AttemptsLeft(s)
      [] pc[s] = "write" -> 5 * AttemptsLeft(s) - 1
      [] pc[s] = "verify" -> 5 * AttemptsLeft(s) - 2
      [] pc[s] \in {"emit_verified", "emit_noop"} -> 5 * AttemptsLeft(s) - 3
      [] OTHER -> 0

\* C1: whatever the runner, the planner and the patch do, a session ends (a
\* session that has not ended can take a step, and every step lowers its
\* rank, a natural number), and it never calls run_test more than
\* max_retries + 1 times.
C1_TerminatesWithinBudget ==
    /\ [](\A s \in Sessions :
            /\ Len(runs[s]) <= max_retries[s] + 1
            /\ Rank(s) >= 0
            /\ ~Terminated(s) => ENABLED Step(s))
    /\ [][/\ \A s \in Sessions : Rank(s)' <= Rank(s)
          /\ \E s \in Sessions : Rank(s)' < Rank(s)]_vars

\* a session that used its whole budget of runs, with two healing attempts
C1_Witness ==
    /\ pc[1] = "returned"
    /\ max_retries[1] = 2
    /\ Len(runs[1]) = 3

InitialRunFailed(s) == runs[s] # <<>> /\ runs[s][1].result.returncode # 0
InitialRunPassed(s) == runs[s] # <<>> /\ runs[s][1].result.returncode = 0

\* C2: a session that has ended returned the success result exactly when one
\* of its verification runs exited 0; when its initial run failed and no
\* verification run exited 0 it returned the healing-failed result.
C2_SuccessIffVerified ==
    \A s \in Sessions :
        pc[s] \in {"returned", "raised"} =>
            /\ (retval[s] = Success) <=> SomeVerificationPassed(s)
            /\ (InitialRunFailed(s) /\ ~SomeVerificationPassed(s))
                   => retval[s] = HealingFailed

\* C3: once the initial run exited 0 the session has returned "no healing
\* needed" after that one run: no attempt, no planner call, no read or write
\* of the target file, no artifacts.
C3_PassingInitialRunIsNoOp ==
    \A s \in Sessions :
        InitialRunPassed(s) =>
            /\ pc[s] = "returned"
            /\ retval[s] = NoHealingNeeded
            /\ Len(runs[s]) = 1
            /\ attempt[s] = 0
            /\ timeline[s] = <<"Start", "InitialRun">>
            /\ plan_inputs[s] = <<>>
            /\ reads[s] = 0
            /\ writes[s] = <<>>
            /\ emits[s] = <<>>
            /\ decision_files = <<>> /\ timeline_files = <<>>

\* a session with a retry budget whose initial run passed
C3_Witness ==
    /\ InitialRunPassed(1)
    /\ max_retries[1] = 2
    /\ retval[1] = NoHealingNeeded

\* C4: a no-op attempt has recorded ActionFailed and written nothing; its
\* next step emits the artifacts and leads to the loop head for the next
\* attempt, with the file, current_code and the latest run result as they
\* were and no run in between.
C4_NoOpAttemptProceeds ==
    /\ [](\A s \in Sessions :
            pc[s] = "emit_noop" =>
                /\ Last(timeline[s]) = "ActionFailed"
                /\ new_code[s] = current_code[s])
    /\ [][\A s \in Sessions :
            (pc[s] = "emit_noop" /\ pc'[s] # pc[s]) =>
                /\ pc'[s] = "loop"
                /\ attempt'[s] = attempt[s] + 1
                /\ Len(emits'[s]) = Len(emits[s]) + 1
                /\ current_code'[s] = current_code[s]
                /\ result'[s] = result[s]
                /\ fs' = fs /\ writes' = writes /\ runs' = runs]_vars

\* C5: the file holds the last patch written (no rollback), and every
\* planner call made after a patch was written got that patched content as
\* code and the output of that patch's verification run as evidence.
C5_EditsAccumulate ==
    \A s \in Sessions :
        /\ writes[s] # <<>> => fs[validated_path[s]] = Last(writes[s])
        /\ \A k \in 1..Len(plan_inputs[s]) :
              LET given == plan_inputs[s][k]
                  w == given.writes_before
              IN w > 0 =>
                    /\ given.code = writes[s][w]
                    /\ given.error_log =
                          gather_evidence(runs[s][w + 1].result).error_log

\* a second attempt planned on the patched content and the verification log
C5_Witness ==
    /\ Len(plan_inputs[1]) >= 2
    /\ plan_inputs[1][2].writes_before = 1
    /\ plan_inputs[1][2].code # plan_inputs[1][1].code
    /\ plan_inputs[1][2].error_log # plan_inputs[1][1].error_log

\* C6: once a verification run exited 0 it is the session's last run, no
\* planner call or write of the target file follows it, and the session
\* returns the success result.
C6_SuccessShortCircuits ==
    \A s \in Sessions :
        SomeVerificationPassed(s) =>
            /\ Last(runs[s]).result.returncode = 0
            /\ \A i \in 2..(Len(runs[s]) - 1) : runs[s][i].result.returncode # 0
            /\ Len(writes[s]) = Len(runs[s]) - 1
            /\ Last(plan_inputs[s]).runs_before = Len(runs[s]) - 1
            /\ pc[s] \in {"emit_verified", "returned"}
            /\ pc[s] = "returned" => retval[s] = Success

\* C7: when the validated path names no file the session has returned the
\* error message with an Error step, and has run nothing, planned nothing,
\* emitted nothing and neither read nor written the file.
C7_MissingFileIsFatal ==
    \A s \in Sessions :
        (validated_path[s] # NoPath /\ validated_path[s] \notin DOMAIN fs) =>
            /\ pc[s] = "returned"
            /\ retval[s] = FileNotFound
            /\ timeline[s] = <<"Start", "Error">>
            /\ runs[s] = <<>>
            /\ plan_inputs[s] = <<>>
            /\ reads[s] = 0
            /\ writes[s] = <<>>
            /\ emits[s] = <<>>

\* a session started on a path inside the allowed directory with no file
C7_Witness ==
    /\ test_file[1] = <<"t", "/", "g", "/", "m">>
    /\ retval[1] = FileNotFound
    /\ max_retries[1] = 2

\* C8: a session never ends by raising, and what it returns is one of the
\* four terminal status strings.
C8_AlwaysReturnsStatus ==
    \A s \in Sessions :
        /\ pc[s] # "raised"
        /\ pc[s] = "returned" =>
              retval[s] \in {FileNotFound, NoHealingNeeded, Success, HealingFailed}

\* C9: an emit_artifacts call that fails with an I/O error does not end the
\* session: it goes on to the next attempt or to its return.
C9_EmitFailureIsConfined ==
    \A s \in Sessions :
        (emits[s] # <<>> /\ Last(emits[s]).io # "ok") =>
            pc[s] \in {"loop", "plan", "write", "verify", "emit_noop",
                       "emit_verified", "returned"}

RunnerFaults == {"TimeoutExpired", "FileNotFoundError"}

\* C10: a run whose process timed out or whose executable is missing yields
\* a result with a non-zero exit status and a non-empty stderr and raises
\* nothing; as the initial run it is recorded as a detected failure, and as a
\* verification run it marks the decision as not verified and never leads to
\* the success result.
C10_RunnerFaultsAreFailingRuns ==
    \A s \in Sessions :
        \A i \in 1..Len(runs[s]) :
            runs[s][i].kind \in RunnerFaults =>
                LET r == runs[s][i].result
                IN /\ ~r.raised /\ exc[s] \notin RunnerFaults
                   /\ r.returncode # 0
                   /\ r.stderr # <<>>
                   /\ i = 1 =>
                         /\ Len(timeline[s]) >= 2
                         /\ timeline[s][2] = "FailureDetected"
                         /\ retval[s] # NoHealingNeeded
                   /\ (i >= 2 /\ i = Len(runs[s])) =>
                         /\ retval[s] # Success
                         /\ pc[s] = "emit_verified" =>
                               /\ ~decision[s].verification_passed
                               /\ decision[s].verification_log = r.stderr

\* an initial run that timed out, a patch, and a verification run with the
\* runner missing
C10_Witness ==
    /\ Len(runs[1]) = 2
    /\ runs[1][1].kind = "TimeoutExpired"
    /\ runs[1][2].kind = "FileNotFoundError"
    /\ pc[1] = "loop"

\* ------------------------------------------- the functions, called directly

\* the sequences over S of at most n elements
SeqsUpTo(S, n) == UNION { [1..k -> S] : k \in 0..n }

\* one call is about to be made, by session 1
CallInit(l, r, t) ==
    /\ pc = [s \in Sessions |-> IF s = 1 THEN "call" ELSE "off"]
    /\ logs = l
    /\ heuristic = NoHeuristic
    /\ response = r
    /\ llm_response = t
    /\ json_str = NoText

\* the call has returned
CallReturns == pc' = [pc EXCEPT ![1] = "returned"]

\* the tokens of a log
MaxLogLen == 3

\* the markers the classifier looks for, and any other text
LogTokens ==
    { "TimeoutError", "waiting for selector", "Test execution timed out",
      "TargetClosedError", "browser has been closed", "expect(", "received",
      "Error: strict mode violation", "locator resolved to 0 elements",
      "Did you mean", "net::ERR_ABORTED", "404", "500", "ReferenceError",
      "TypeError", "other text" }

\* the logs the classifier is given: None, or a text with some markers in it
Logs == SeqsUpTo(LogTokens, MaxLogLen) \cup {NoneLog}

ClassifyInit ==
    /\ \E l \in Logs : CallInit(l, NoResponse, NoText)
    /\ Idle(<<>>, 0, <<>>, <<>>, NoDecision)

\* classify_failure_heuristic(logs)
ClassifyCall ==
    /\ pc[1] = "call"
    /\ heuristic' = classify_failure_heuristic(logs)
    /\ CallReturns
    /\ UNCHANGED <<locals, timeline, retval, exc, disk, history, logs, response,
                   llm_response, json_str>>

ClassifyNext == ClassifyCall

ClassifySpec == ClassifyInit /\ [][ClassifyNext]_vars

\* the rules in their documented order: a rule applies when one of its any
\* markers (if it has any) and all of its all markers are in the log
DocumentedRules ==
    << [any |-> {"TimeoutError", "waiting for selector", "Test execution timed out"},
        all |-> {}, pair |-> <<"TIMEOUT", 10>>],
       [any |-> {"TargetClosedError", "browser has been closed"},
        all |-> {}, pair |-> <<"ENVIRONMENT_ISSUE", 10>>],
       [any |-> {}, all |-> {"expect(", "received"}, pair |-> <<"ASSERTION_FAILED", 10>>],
       [any |-> {}, all |-> {"Error: strict mode violation"},
        pair |-> <<"LOCATOR_DRIFT", 9>>],
       [any |-> {}, all |-> {"locator resolved to 0 elements", "Did you mean"},
        pair |-> <<"LOCATOR_DRIFT", 8>>],
       [any |-> {}, all |-> {"locator resolved to 0 elements"},
        pair |-> <<"LOCATOR_NOT_FOUND", 7>>],
       [any |-> {"net::ERR_ABORTED", "404", "500"},
        all |-> {}, pair |-> <<"POTENTIAL_APP_DEFECT", 8>>],
       [any |-> {"ReferenceError", "TypeError"},
        all |-> {}, pair |-> <<"JAVASCRIPT_ERROR", 7>>] >>

\* the documented rules whose marker is in the log
RulesPresent(l) ==
    { i \in DOMAIN DocumentedRules :
        LET rule == DocumentedRules[i]
        IN /\ l # NoneLog
           /\ rule.any # {} => \E m \in rule.any : \E k \in DOMAIN l : l[k] = m
           /\ \A m \in rule.all : \E k \in DOMAIN l : l[k] = m }

\* C11: the classifier returns the pair of the first documented rule whose
\* marker is in the log, whatever markers of later rules are there too, and
\* it returns (UNKNOWN, 0.0) exactly when the log is empty, None, or has no
\* marker in it.
C11_FirstRuleWins ==
    pc[1] = "returned" =>
        LET present == RulesPresent(logs)
        IN /\ present # {} =>
                \E i \in present :
                    /\ \A j \in present : i <= j
                    /\ heuristic = DocumentedRules[i].pair
           /\ heuristic = <<"UNKNOWN", 0>>
                <=> (logs = NoneLog \/ logs = <<>> \/ present = {})

\* a timeout marker together with the markers of two later rules
C11_Witness ==
    /\ pc[1] = "returned"
    /\ logs = <<"404", "TypeError", "TimeoutError">>
    /\ heuristic = <<"TIMEOUT", 10>>

\* the eight values of the FailureType enumeration
FailureType ==
    { "LOCATOR_NOT_FOUND", "LOCATOR_DRIFT", "TIMEOUT", "ASSERTION_FAILED",
      "ENVIRONMENT_ISSUE", "POTENTIAL_APP_DEFECT", "JAVASCRIPT_ERROR", "UNKNOWN" }

\* a JSON null
Null == "<null>"

\* what the reasoner's JSON can hold under "failure_type": nothing, null, a
\* value of the enumeration, or other text
ReportedTypes == FailureType \cup {Absent, Null, "FLAKY", "unknown"}

\* what data.get("action_taken", {}) can be: the three fields of
\* HealingAction, no key at all, a field missing, a field too many, or a
\* value that is no object
ActionShapes == {"ok", "absent", "missing_field", "extra_field", "not_object"}

\* what the reasoning call and json.loads can produce: the call raises, the
\* text is no JSON, the JSON is no object, or the JSON is an object
PlanResponses ==
    { [kind |-> k, failure_type |-> Absent, confidence_score |-> 0,
       action |-> "absent", original_code |-> Str(<<>>), fixed_code |-> Str(<<>>)] :
         k \in {"raise", "invalid_json", "non_object"} }
    \cup
    { [kind |-> "data", failure_type |-> ft, confidence_score |-> 9,
       action |-> a, original_code |-> Str(<<"b">>), fixed_code |-> Str(<<"c">>)] :
         ft \in ReportedTypes, a \in ActionShapes }

\* error logs, one for each answer of the heuristic
PlanLogs ==
    { <<>>,
      <<"other text">>,
      <<"TimeoutError", "other text">>,
      <<"browser has been closed">>,
      <<"expect(", "received">>,
      <<"Error: strict mode violation">>,
      <<"locator resolved to 0 elements", "Did you mean">>,
      <<"locator resolved to 0 elements">>,
      <<"404">>,
      <<"TypeError">> }

PlanInit ==
    /\ \E l \in PlanLogs, r \in PlanResponses : CallInit(l, r, NoText)
    /\ Idle(<<>>, 0, <<>>, <<>>, NoDecision)

\* analyze_and_plan(test_file, code, evidence): load_prompt raises when the
\* prompt file is missing, before the reasoner is called
PlanCall ==
    /\ pc[1] = "call"
    /\ heuristic' = classify_failure_heuristic(logs)
    /\ \E prompt \in {"ok", "missing"} :
          IF prompt = "missing"
          THEN /\ Raise(1, "FileNotFoundError: Prompt file not found")
               /\ response' = NoResponse
               /\ UNCHANGED decision
          ELSE /\ decision' = [decision EXCEPT ![1] =
                      analyze_and_plan([error_log |-> logs], response)]
               /\ Return(1, "HealingDecision")
               /\ UNCHANGED response
    /\ UNCHANGED <<test_file, max_retries, validated_path, result, current_code,
                   attempt, new_code, verify_result, timeline, disk, history,
                   logs, llm_response, json_str>>

PlanNext == PlanCall

PlanSpec == PlanInit /\ [][PlanNext]_vars

\* C12: when the response parses, the decision's failure_type is the
\* heuristic's category if the heuristic confidence is above 0.8 and the
\* reasoner said UNKNOWN or nothing; in every other case it is the reasoner's
\* own value.
C12_HeuristicOverridesOnlyUnknown ==
    (pc[1] = "returned" /\ Parsed(response)) =>
        LET said == response.failure_type
            uncommitted == said \in {Absent, "UNKNOWN"}
        IN /\ (heuristic[2] > 8 /\ uncommitted) =>
                 decision[1].failure_type = heuristic[1]
           /\ (heuristic[2] <= 8 /\ uncommitted) =>
                 decision[1].failure_type = "UNKNOWN"
           /\ ~uncommitted => decision[1].failure_type = said

\* a heuristic of confidence 0.9 replaces an UNKNOWN answer, and a heuristic
\* of confidence 0.8 does not
C12_Witness ==
    /\ pc[1] = "returned" /\ Parsed(response)
    /\ response.failure_type = "UNKNOWN"
    /\ heuristic = <<"LOCATOR_DRIFT", 9>>
    /\ decision[1].failure_type = "LOCATOR_DRIFT"

\* the decision of a failed analysis
Degraded(d) ==
    /\ d.failure_type = "UNKNOWN"
    /\ d.confidence_score = 0
    /\ d.original_code = <<>> /\ d.fixed_code = <<>>

\* the planner's part of C13: when the reasoning call raises or its response
\* does not parse into the decision schema, analyze_and_plan returns the
\* decision of a failed analysis.
PlannerDegrades ==
    (pc[1] # "call" /\ response # NoResponse /\ ~Parsed(response)) =>
        /\ pc[1] = "returned"
        /\ Degraded(decision[1])

MaxCodeLines == 3
MaxTargetLines == 2

CodeLineChoices == { <<"a">>, <<" ", "a">>, <<"b">>, <<>> }
TargetLineChoices == { <<"a">>, <<"a", " ">>, <<"b">>, <<" ">> }

\* the file contents apply_fix is given: some lines, with or without a final
\* newline
Codes ==
    UNION { {join(<<NL>>, ls), join(<<NL>>, ls) \o <<NL>>} :
              ls \in SeqsUpTo(CodeLineChoices, MaxCodeLines) }

\* the values of original_code: nothing, a text found verbatim, a text that
\* differs in whitespace only, whitespace only
Targets == { join(<<NL>>, ls) : ls \in SeqsUpTo(TargetLineChoices, MaxTargetLines) }

\* the values of fixed_code: "", "c", " c", "c\n  d" and "a"
Replacements ==
    { <<>>, <<"c">>, <<" ", "c">>, <<"c", NL, " ", " ", "d">>, <<"a">> }

ApplyInit ==
    /\ CallInit(<<>>, NoResponse, NoText)
    /\ \E code \in Codes, t \in Targets, r \in Replacements :
          Idle(<<>>, 0, <<>>, code,
               [NoDecision EXCEPT !.original_code = t, !.fixed_code = r])

\* new_code = apply_fix(validated_path_str, current_code, decision)
ApplyCall ==
    /\ pc[1] = "call"
    /\ LET fix == apply_fix(current_code[1], decision[1].original_code,
                            decision[1].fixed_code)
       IN IF fix.raised
          THEN /\ Raise(1, "IndexError")
               /\ UNCHANGED new_code
          ELSE /\ new_code' = [new_code EXCEPT ![1] = fix.code]
               /\ Return(1, "updated code")
    /\ UNCHANGED <<test_file, max_retries, validated_path, result, current_code,
                   attempt, decision, verify_result, timeline, disk, history, calls>>

ApplyNext == ApplyCall

ApplySpec == ApplyInit /\ [][ApplyNext]_vars

\* the positions at which t occurs verbatim in s
Occurrences(t, s) ==
    { i \in 1..(Len(s) - Len(t) + 1) : SubSeq(s, i, i + Len(t) - 1) = t }

\* the call under ApplySpec: its arguments and what it returned
Code == current_code[1]
TargetText == decision[1].original_code
ReplacementText == decision[1].fixed_code
Updated == new_code[1]

\* C14: when original_code occurs verbatim in current_code, the result is
\* the text before the first occurrence, then fixed_code, then the text after
\* that occurrence, so that later occurrences remain.
C14_FirstOccurrenceOnly ==
    (/\ pc[1] # "call"
     /\ TargetText # <<>> /\ ReplacementText # <<>>
     /\ Occurrences(TargetText, Code) # {}) =>
        /\ pc[1] = "returned"
        /\ \E i \in Occurrences(TargetText, Code) :
              /\ \A j \in Occurrences(TargetText, Code) : i <= j
              /\ Updated = SubSeq(Code, 1, i - 1) \o ReplacementText
                            \o SubSeq(Code, i + Len(TargetText), Len(Code))

\* the significant lines of original_code: stripped, blank lines left out
Significant(text) ==
    LET ls == splitlines(text)
        keep == { k \in DOMAIN ls : \E n \in DOMAIN ls[k] : ~IsSpace(ls[k][n]) }
        nth(n) == CHOOSE k \in keep : Cardinality({ q \in keep : q < k }) = n - 1
    IN [n \in 1..Cardinality(keep) |-> strip(ls[nth(n)])]

\* the positions of the windows of contiguous file lines whose stripped
\* contents are the target's significant lines
Windows(code, text) ==
    LET sig == Significant(text)
        ls == splitlines(code)
    IN IF sig = <<>> THEN {}
       ELSE { i \in 1..(Len(ls) - Len(sig) + 1) :
                \A k \in 1..Len(sig) : strip(ls[i + k - 1]) = sig[k] }

\* C15: apply_fix does not raise, and returns current_code as it is when
\* original_code or fixed_code is empty or original_code matches neither
\* verbatim nor as a window of significant lines: also for an empty
\* current_code and an original_code of whitespace only.
C15_NoMatchIsNoOp ==
    pc[1] # "call" =>
        /\ pc[1] = "returned"
        /\ (\/ TargetText = <<>>
            \/ ReplacementText = <<>>
            \/ /\ Occurrences(TargetText, Code) = {}
               /\ Windows(Code, TargetText) = {}) => Updated = Code

RECURSIVE SplitAtNewlines(_, _)
\* the pieces of a text between its newlines
SplitAtNewlines(s, cur) ==
    IF s = <<>> THEN <<cur>>
    ELSE IF Head(s) = NL THEN <<cur>> \o SplitAtNewlines(Tail(s), <<>>)
    ELSE SplitAtNewlines(Tail(s), Append(cur, Head(s)))

\* the leading whitespace of a line, and the line without it
LeadingWhitespace(line) ==
    SubSeq(line, 1, Cardinality({ n \in DOMAIN line : \A k \in 1..n : IsSpace(line[k]) }))
WithoutLeadingWhitespace(line) ==
    SubSeq(line, Len(LeadingWhitespace(line)) + 1, Len(line))

\* the call matched through the normalized sliding window
NormalizedMatch ==
    /\ pc[1] = "returned"
    /\ TargetText # <<>> /\ ReplacementText # <<>>
    /\ Occurrences(TargetText, Code) = {}
    /\ Windows(Code, TargetText) # {}

\* C16: in a normalized match every line of the replacement is in the result
\* as the leading whitespace of the first matched line of the file followed
\* by that replacement line without its own leading whitespace.
C16_ReplacementTakesFirstLineIndent ==
    NormalizedMatch =>
        LET out == SplitAtNewlines(Updated, <<>>)
            file == splitlines(Code)
            repl == splitlines(ReplacementText)
        IN \E i \in Windows(Code, TargetText) :
              \A j \in 1..Len(repl) :
                  /\ i + j - 1 <= Len(out)
                  /\ out[i + j - 1] = LeadingWhitespace(file[i])
                                       \o WithoutLeadingWhitespace(repl[j])

\* the target "a \nb" matched at the indented second line of " a\n a\nb",
\* replaced by "c\n  d"
C16_Witness ==
    /\ NormalizedMatch
    /\ Code = <<" ", "a", NL, " ", "a", NL, "b">>
    /\ TargetText = <<"a", " ", NL, "b">>
    /\ ReplacementText = <<"c", NL, " ", " ", "d">>
    /\ Updated = <<" ", "a", NL, " ", "c", NL, " ", "d">>

\* C17: in a normalized match the window replaced is the earliest run of
\* contiguous file lines whose stripped contents are the target's significant
\* lines, and the file's lines before and after it are in the result
\* unchanged and in order.
C17_OnlyEarliestWindowReplaced ==
    NormalizedMatch =>
        LET out == SplitAtNewlines(Updated, <<>>)
            file == splitlines(Code)
            k == Len(Significant(TargetText))
            n == Len(splitlines(ReplacementText))
        IN \E i \in Windows(Code, TargetText) :
              /\ \A j \in Windows(Code, TargetText) : i <= j
              /\ Len(out) = Len(file) - k + n
              /\ SubSeq(out, 1, i - 1) = SubSeq(file, 1, i - 1)
              /\ SubSeq(out, i + n, Len(out)) = SubSeq(file, i + k, Len(file))

\* the target "a " matches the lines 2 and 3 of "b\n a\n a": line 2 is
\* replaced, the lines 1 and 3 stay
C17_Witness ==
    /\ NormalizedMatch
    /\ Code = <<"b", NL, " ", "a", NL, " ", "a">>
    /\ TargetText = <<"a", " ">>
    /\ ReplacementText = <<"c">>
    /\ Updated = <<"b", NL, " ", "c", NL, " ", "a">>

\* the segments of a path
MaxSegments == 4

\* tests (t), generated (g), generated_x (gx), "..", the working directory's
\* name (w) and a file name (f)
SegmentChoices == { <<"t">>, <<"g">>, <<"g", "x">>, <<".", ".">>, <<"w">>, <<"f">> }

\* the file_path arguments: relative and absolute paths, and ""
Paths ==
    UNION { {join(<<"/">>, segs), <<"/">> \o join(<<"/">>, segs)} :
              segs \in SeqsUpTo(SegmentChoices, MaxSegments) }

ValidateInit ==
    /\ CallInit(<<>>, NoResponse, NoText)
    /\ \E p \in Paths : Idle(p, 0, <<>>, <<>>, NoDecision)

\* validated_path_str = validate_file_path(test_file)
ValidateCall ==
    /\ pc[1] = "call"
    /\ LET v == validate_file_path(test_file[1])
       IN IF v = ValidationError
          THEN /\ Raise(1, "ValidationError")
               /\ UNCHANGED validated_path
          ELSE /\ validated_path' = [validated_path EXCEPT ![1] = v]
               /\ Return(1, "abs_path")
    /\ UNCHANGED <<test_file, max_retries, result, current_code, attempt, decision,
                   new_code, verify_result, timeline, disk, history, calls>>

ValidateNext == ValidateCall

ValidateSpec == ValidateInit /\ [][ValidateNext]_vars

\* path is the directory dir or lies below it
Inside(path, dir) == path = dir \/ startswith(path, dir \o <<"/">>)

InsideAllowed(path) == \E dir \in DefaultAllowedDirs : Inside(path, abspath(dir))

\* C18: validate_file_path returns the absolute path only when it lies
\* inside an allowed directory, and raises ValidationError for every path
\* that leaves the allowed set: by "..", as an absolute path elsewhere, or
\* into a sibling directory whose name begins with the allowed one's.
C18_OnlyPathsInsideAllowedDirs ==
    pc[1] # "call" =>
        /\ pc[1] = "returned" =>
              /\ validated_path[1] = abspath(test_file[1])
              /\ InsideAllowed(validated_path[1])
        /\ ~InsideAllowed(abspath(test_file[1])) =>
              /\ pc[1] = "raised"
              /\ exc[1] = "ValidationError"

\* C19: the failure_type of every decision analyze_and_plan returns is one
\* of the eight values of the FailureType enumeration, whatever the reasoner
\* put in its failure_type field.
C19_FailureTypeInEnumeration ==
    pc[1] = "returned" => decision[1].failure_type \in FailureType

\* ------------------------------------------------------- extract_json_block

\* the pieces of a response text: the fence of three backquotes, the word
\* json, a newline, braces, other text, a blank, and a control character
\* such as \x01
Fence == "<fence>"
Json == "json"
Ctrl == "<ctrl>"
TextTokens == { Fence, Json, NL, "{", "}", "x", " ", Ctrl }

\* the class [\x00-\x08\x0b\x0c\x0e-\x1f\x7f]
IsControl(c) == c = Ctrl

\* re.sub(r"[\x00-\x08\x0b\x0c\x0e-\x1f\x7f]", "", json_str)
Sanitize(text) == SelectSeq(text, LAMBDA c : ~IsControl(c))

\* the positions at which the pattern, fence (?:json)?\n(.*?) fence, matches:
\* a fence, json or not, a newline, and a fence somewhere after it
PatternMatches(text) ==
    { p \in DOMAIN text :
        /\ text[p] = Fence
        /\ \E body \in {p + 2, p + 3} :
              /\ body <= Len(text) + 1
              /\ text[body - 1] = NL
              /\ body = p + 3 => text[p + 1] = Json
              /\ \E q \in body..Len(text) : text[q] = Fence }

\* match.group(1) of re.search: the leftmost match, its group ended by the
\* next fence
Group1(text) ==
    LET p == Min(PatternMatches(text))
        body == IF text[p + 1] = NL THEN p + 2 ELSE p + 3
        q == Min({ n \in body..Len(text) : text[n] = Fence })
    IN SubSeq(text, body, q - 1)

\* str.find and str.rfind of a character, counted from 1; 0 for -1
find(text, c) ==
    IF \E n \in DOMAIN text : text[n] = c
    THEN Min({ n \in DOMAIN text : text[n] = c }) ELSE 0
rfind(text, c) ==
    IF \E n \in DOMAIN text : text[n] = c
    THEN CHOOSE n \in DOMAIN text : text[n] = c /\ \A k \in (n + 1)..Len(text) : text[k] # c
    ELSE 0

\* extract_json_block(llm_response); a slice whose end lies before its
\* start is empty
extract_json_block(text) ==
    IF text = NoneLog \/ text = <<>> THEN <<"{", "}">>
    ELSE IF PatternMatches(text) # {} THEN Sanitize(strip(Group1(text)))
    ELSE LET start == find(text, "{")
             end == rfind(text, "}")
         IN IF start # 0 /\ end # 0
            THEN Sanitize(IF end < start THEN <<>> ELSE SubSeq(text, start, end))
            ELSE Sanitize(text)

\* the length of a response text
MaxTextLen == 5

\* the responses: None, and the texts of up to MaxTextLen pieces
Texts == SeqsUpTo(TextTokens, MaxTextLen) \cup {NoneLog}

ExtractInit ==
    /\ \E t \in Texts : CallInit(<<>>, NoResponse, t)
    /\ Idle(<<>>, 0, <<>>, <<>>, NoDecision)

\* json_content = extract_json_block(raw_content)
ExtractCall ==
    /\ pc[1] = "call"
    /\ json_str' = extract_json_block(llm_response)
    /\ CallReturns
    /\ UNCHANGED <<locals, timeline, retval, exc, disk, history, logs, heuristic,
                   response, llm_response>>

ExtractNext == ExtractCall

ExtractSpec == ExtractInit /\ [][ExtractNext]_vars

\* a fenced block opens at p: a fence, then a newline or json and a newline
Opens(text, p) ==
    /\ text[p] = Fence
    /\ \/ p + 1 <= Len(text) /\ text[p + 1] = NL
       \/ p + 2 <= Len(text) /\ text[p + 1] = Json /\ text[p + 2] = NL

\* where the content of the block opened at p starts, and the fences that
\* can close it
ContentStart(text, p) == IF text[p + 1] = NL THEN p + 2 ELSE p + 3
ClosingFences(text, p) ==
    { q \in ContentStart(text, p)..Len(text) : text[q] = Fence }

\* the fenced blocks of a text, by the position of their opening fence
FencedBlocks(text) ==
    { p \in DOMAIN text : Opens(text, p) /\ ClosingFences(text, p) # {} }

\* the content of the first fenced block: up to its closing fence
FirstBlockContent(text) ==
    LET p == CHOOSE p \in FencedBlocks(text) : \A o \in FencedBlocks(text) : p <= o
        q == CHOOSE q \in ClosingFences(text, p) :
                 \A o \in ClosingFences(text, p) : q <= o
    IN SubSeq(text, ContentStart(text, p), q - 1)

\* the positions of the braces
OpenBraces(text) == { n \in DOMAIN text : text[n] = "{" }
CloseBraces(text) == { n \in DOMAIN text : text[n] = "}" }
FirstOpenBrace(text) == CHOOSE a \in OpenBraces(text) : \A o \in OpenBraces(text) : a <= o
LastCloseBrace(text) == CHOOSE b \in CloseBraces(text) : \A o \in CloseBraces(text) : b >= o

\* there is a text that reaches from the first "{" to the last "}"
HasBraceSpan(text) ==
    /\ OpenBraces(text) # {} /\ CloseBraces(text) # {}
    /\ FirstOpenBrace(text) < LastCloseBrace(text)

\* a text without its control characters
WithoutControls(text) == SelectSeq(text, LAMBDA c : c # Ctrl)

\* the call under ExtractSpec has returned for a response that is not empty
ExtractedNonEmpty ==
    pc[1] = "returned" /\ llm_response # <<>> /\ llm_response # NoneLog

\* C20 as stated: "{}" for an empty response; else the trimmed content of
\* the first fenced block; else the text from the first "{" through the last
\* "}"; else the input itself; the last three without control characters.
C20_BlockBracesOrInput ==
    /\ (pc[1] = "returned" /\ ~ExtractedNonEmpty) => json_str = <<"{", "}">>
    /\ ExtractedNonEmpty =>
          /\ \A n \in DOMAIN json_str : json_str[n] # Ctrl
          /\ json_str = WithoutControls(
                IF FencedBlocks(llm_response) # {}
                THEN strip(FirstBlockContent(llm_response))
                ELSE IF HasBraceSpan(llm_response)
                THEN SubSeq(llm_response, FirstOpenBrace(llm_response),
                            LastCloseBrace(llm_response))
                ELSE llm_response)

\* what the code does where C20 fails: without a fenced block, a text that
\* has both a "{" and a "}" gives the text from the first "{" through the
\* last "}", which is empty when the last "}" comes before the first "{";
\* only a text that lacks one of the braces is returned itself.
ExtractedBySlice ==
    /\ (pc[1] = "returned" /\ ~ExtractedNonEmpty) => json_str = <<"{", "}">>
    /\ ExtractedNonEmpty =>
          /\ \A n \in DOMAIN json_str : json_str[n] # Ctrl
          /\ json_str = WithoutControls(
                IF FencedBlocks(llm_response) # {}
                THEN strip(FirstBlockContent(llm_response))
                ELSE IF OpenBraces(llm_response) # {} /\ CloseBraces(llm_response) # {}
                THEN (IF HasBraceSpan(llm_response)
                      THEN SubSeq(llm_response, FirstOpenBrace(llm_response),
                                  LastCloseBrace(llm_response))
                      ELSE <<>>)
                ELSE llm_response)

\* ------------------------------------------------- claims about a session

\* the positions of a step in a timeline
StepsNamed(tl, name) == { i \in DOMAIN tl : tl[i] = name }

\* the session has ended, by returning or by raising
Ended(s) == pc[s] \in {"returned", "raised"}

\* C21: in a session's timeline each HealingAttempt is followed by
\* EvidenceCollected, AnalysisComplete and one of ActionFailed and
\* SelectorUpdated; a Verification comes only directly after a
\* SelectorUpdated; HealingFailed is only the last step, after exactly
\* max_retries HealingAttempt steps of which none verified successfully.
C21_TimelineFollowsStateMachine ==
    \A s \in Sessions :
        LET tl == timeline[s]
        IN /\ \A i \in StepsNamed(tl, "HealingAttempt") :
                 /\ i + 1 <= Len(tl) => tl[i + 1] = "EvidenceCollected"
                 /\ i + 2 <= Len(tl) => tl[i + 2] = "AnalysisComplete"
                 /\ i + 3 <= Len(tl) => tl[i + 3] \in {"ActionFailed", "SelectorUpdated"}
                 /\ Ended(s) => i + 3 <= Len(tl)
           /\ \A j \in StepsNamed(tl, "Verification") :
                 j > 1 /\ tl[j - 1] = "SelectorUpdated"
           /\ \A j \in StepsNamed(tl, "HealingFailed") :
                 /\ j = Len(tl)
                 /\ Cardinality(StepsNamed(tl, "HealingAttempt")) = max_retries[s]
                 /\ ~SomeVerificationPassed(s)

\* C22: a Retry step is always followed by the HealingAttempt step of a next
\* attempt, and is never the step directly before HealingFailed.
C22_RetryOnlyBeforeNextAttempt ==
    \A s \in Sessions :
        LET tl == timeline[s]
        IN \A i \in StepsNamed(tl, "Retry") :
              /\ i + 1 <= Len(tl) => tl[i + 1] = "HealingAttempt"
              /\ Ended(s) => i + 1 <= Len(tl)

\* the note a no-op attempt leaves in its decision
CouldNotApply == <<"Could not apply fix (code mismatch)">>

\* session s has just got the decision of a new attempt
NewDecision(s) == pc[s] = "plan" /\ pc'[s] \in {"emit_noop", "write", "raised"}

\* after the creation of an attempt's decision, its fields are changed only
\* by the step of that attempt's verification run, which sets
\* verification_passed to whether the run exited 0 and verification_log to
\* the run's output
ChangedOnlyByVerification(s) ==
    (~NewDecision(s) /\ decision'[s] # decision[s]) =>
        /\ pc[s] = "verify"
        /\ Len(runs'[s]) = Len(runs[s]) + 1
        /\ LET r == Last(runs'[s]).result
           IN decision'[s] =
                 [decision[s] EXCEPT
                     !.verification_passed = (r.returncode = 0),
                     !.verification_log = IF r.returncode = 0 THEN r.stdout
                                          ELSE r.stderr]

\* C23 as stated: a new decision has verification_passed false and its
\* verification_log untouched; both are changed only after that attempt's
\* verification run, verification_passed to true exactly when the run exits
\* 0; no later attempt changes or reuses the decision.
C23_DecisionMutatedOnlyAfterVerification ==
    [][\A s \in Sessions :
          /\ (NewDecision(s) /\ decision'[s] # decision[s]) =>
                /\ ~decision'[s].verification_passed
                /\ decision'[s].verification_log = NoneLog
          /\ ChangedOnlyByVerification(s)]_vars

\* C23, amended: a new decision has verification_passed false, and its
\* verification_log is untouched unless the patch changed nothing, in which
\* case it holds the code-mismatch note although no verification has run;
\* after that, both fields are changed only after that attempt's verification
\* run, verification_passed to true exactly when the run exits 0; no later
\* attempt changes or reuses the decision.
C23_DecisionMutatedAfterVerificationOrNoOp ==
    [][\A s \in Sessions :
          /\ (NewDecision(s) /\ pc'[s] # "raised") =>
                /\ ~decision'[s].verification_passed
                /\ decision'[s].verification_log =
                      IF pc'[s] = "emit_noop" THEN CouldNotApply ELSE NoneLog
          /\ ChangedOnlyByVerification(s)]_vars

\* a no-op attempt whose decision holds the note, with no run but the
\* initial one
C23_Witness ==
    /\ pc[1] = "emit_noop"
    /\ decision[1].verification_log = CouldNotApply
    /\ ~decision[1].verification_passed
    /\ Len(runs[1]) = 1

\* the emissions of session s that wrote both documents
CompleteEmissions(s) == { i \in DOMAIN emits[s] : emits[s][i].io = "ok" }

\* session s ends an attempt with this step
AttemptEnds(s) ==
    /\ pc[s] \in {"emit_noop", "emit_verified"}
    /\ pc'[s] \in {"loop", "returned"}

\* the attempts of session s that ran to their end
AttemptsEnded(s) == attempt[s] + (IF retval[s] = Success THEN 1 ELSE 0)

\* the decision has its final verification fields: the note of the no-op, or
\* the outcome of the attempt's verification run
FinalFields(s) ==
    IF pc[s] = "emit_noop"
    THEN /\ decision[s].verification_log = CouldNotApply
         /\ ~decision[s].verification_passed
    ELSE LET r == Last(runs[s]).result
         IN /\ Len(runs[s]) >= 2
            /\ decision[s].verification_passed = (r.returncode = 0)
            /\ decision[s].verification_log =
                  IF r.returncode = 0 THEN r.stdout ELSE r.stderr

\* C24: every attempt that runs to its end emits exactly once, a decision
\* document and a timeline document under the same timestamp, and only when
\* its decision has its final verification fields.
C24_OneEmissionPerAttempt ==
    /\ [](\A s \in Sessions : Cardinality(CompleteEmissions(s)) = AttemptsEnded(s))
    /\ [][\A s \in Sessions :
            /\ AttemptEnds(s) =>
                  /\ Len(emits'[s]) = Len(emits[s]) + 1
                  /\ Last(emits'[s]).io = "ok"
                  /\ FinalFields(s)
                  /\ decision'[s] = decision[s]
                  /\ LET t == Last(emits'[s]).timestamp
                     IN /\ t \in DOMAIN decision_files' /\ t \in DOMAIN timeline_files'
                        /\ decision_files'[t] = decision[s]
                        /\ timeline_files'[t] = timeline[s]
            /\ emits'[s] # emits[s] => pc[s] \in {"emit_noop", "emit_verified"}]_vars

\* a verified attempt that failed has ended, with both documents under the
\* timestamp 0
C24_Witness ==
    /\ pc[1] = "loop" /\ attempt[1] = 1
    /\ emits[1] = <<[timestamp |-> 0, io |-> "ok"]>>
    /\ 0 \in DOMAIN decision_files /\ 0 \in DOMAIN timeline_files
    /\ Last(timeline_files[0]) = "Verification"
    /\ decision_files[0].verification_log # NoneLog

\* seq is an initial part of whole
IsPrefix(seq, whole) ==
    Len(seq) <= Len(whole) /\ SubSeq(whole, 1, Len(seq)) = seq

\* C25: the timeline only grows, and when attempt_healing has returned,
\* every step of the session, the terminal step included, is in a persisted
\* timeline document.
C25_TimelinePersistedAtSessionEnd ==
    /\ [](\A s \in Sessions :
            pc[s] = "returned" =>
                \E t \in DOMAIN timeline_files : IsPrefix(timeline[s], timeline_files[t]))
    /\ [][\A s \in Sessions : IsPrefix(timeline[s], timeline'[s])]_vars

\* the target file of session s exists, is empty, and has not been written
\* by the session
TargetIsEmpty(s) ==
    /\ validated_path[s] \in DOMAIN fs
    /\ fs[validated_path[s]] = <<>>
    /\ writes[s] = <<>>

\* C26: a session on an empty target file calls no planner, applies no
\* patch, runs the test at most for the initial run and starts no attempt.
C26_EmptyFileIsFatal ==
    \A s \in Sessions :
        TargetIsEmpty(s) =>
            /\ plan_inputs[s] = <<>>
            /\ Len(runs[s]) <= 1
            /\ StepsNamed(timeline[s], "HealingAttempt") = {}
            /\ pc[s] \notin {"plan", "write", "verify", "emit_noop", "emit_verified"}

\* the writes of session s since its latest attempt started
WritesInAttempt(s) == Len(writes[s]) - Last(plan_inputs[s]).writes_before

\* C27: with one session as the only writer, current_code is the content of
\* the target file when an attempt starts, the file is written at most once
\* in an attempt, and what is written differs from the content the file had
\* when the attempt started.
C27_CodeInSyncWithFile ==
    /\ [](\A s \in Sessions :
            /\ pc[s] \in {"loop", "plan"} =>
                  current_code[s] = fs[validated_path[s]]
            /\ plan_inputs[s] = <<>> => writes[s] = <<>>
            /\ plan_inputs[s] # <<>> => WritesInAttempt(s) \in {0, 1})
    /\ [][/\ fs' # fs => \E s \in Sessions : writes'[s] # writes[s]
          /\ \A s \in Sessions :
                writes'[s] # writes[s] =>
                    /\ pc[s] = "write"
                    /\ WritesInAttempt(s) = 0
                    /\ fs[validated_path[s]] = Last(plan_inputs[s]).code
                    /\ fs'[validated_path[s]] = Last(writes'[s])
                    /\ Last(writes'[s]) # Last(plan_inputs[s]).code]_vars

\* the second attempt starts on the file as the first attempt wrote it
C27_Witness ==
    /\ pc[1] = "plan" /\ attempt[1] = 1
    /\ Len(writes[1]) = 1
    /\ current_code[1] = writes[1][1]
    /\ fs[validated_path[1]] = writes[1][1]

\* a text that ends with a newline
EndsWithNewline(text) == text # <<>> /\ text[Len(text)] = NL

\* the call under ApplySpec replaced something, verbatim or by window
Matched ==
    /\ pc[1] = "returned"
    /\ TargetText # <<>> /\ ReplacementText # <<>>
    /\ Occurrences(TargetText, Code) # {} \/ Windows(Code, TargetText) # {}

\* C28: in both matching modes a current_code that ends with a newline gives
\* a result that ends with a newline.
C28_FinalNewlineKept ==
    (Matched /\ EndsWithNewline(Code)) => EndsWithNewline(Updated)

\* C29: the emissions of a session are stored under different names: the
\* directory holds one decision document and one timeline document for each
\* attempt that ended, and no emission replaces a document that is there.
C29_EmissionsNeverCollide ==
    /\ [](Cardinality(DOMAIN decision_files) = AttemptsEnded(1)
                + (IF pc[1] = "raised" /\ exc[1] = "OSError"
                      /\ Last(emits[1]).io = "timeline_write_fails" THEN 1 ELSE 0)
          /\ Cardinality(DOMAIN timeline_files) = AttemptsEnded(1))
    /\ [][/\ \A t \in DOMAIN decision_files : decision_files'[t] = decision_files[t]
          /\ \A t \in DOMAIN timeline_files : timeline_files'[t] = timeline_files[t]]_vars

\* ------------------------------------------------ two sessions on one file

\* two sessions with one attempt each, started on the file t/g/f with the
\* content "a\n  b\n"
TwoInit ==
    InitSession(<<"t", "/", "g", "/", "f">>, 1, <<"a", NL, " ", " ", "b", NL>>, {1, 2})

TwoSpec == TwoInit /\ [][Next]_vars

\* session s writes the file with this step
Writes(s) == pc[s] = "write" /\ pc'[s] = "verify"

\* C30 as stated: what a session writes is derived from the content the
\* file has at the moment of the write, so that no patch of the other session
\* is overwritten from a stale read.
C30_NoLostUpdate ==
    [][\A s \in Sessions :
          Writes(s) => fs[validated_path[s]] = Last(plan_inputs[s]).code]_vars

\* C30, amended: what a session writes is its own patch applied to its own
\* copy of the code, whatever the file holds at the moment of the write; the
\* file is replaced as a whole, so that a patch the other session wrote after
\* this session's read is lost.
C30_WriteFromOwnCopy ==
    [][\A s \in Sessions :
          Writes(s) =>
              /\ fs'[validated_path[s]] =
                     apply_fix(Last(plan_inputs[s]).code, decision[s].original_code,
                               decision[s].fixed_code).code
              /\ \A p \in DOMAIN fs : p # validated_path[s] => fs'[p] = fs[p]]_vars

\* both sessions patched the same content differently, and the file holds the
\* patch of session 2 alone
C30_Witness ==
    /\ Len(writes[1]) = 1 /\ Len(writes[2]) = 1
    /\ plan_inputs[1][1].code = plan_inputs[2][1].code
    /\ writes[1][1] # writes[2][1]
    /\ fs[validated_path[2]] = writes[2][1]

====
